---------------------------- MODULE Spec2Model ----------------------------
(***************************************************************************)
(* Model of weechat-logexport (src/logexport.py): the /logexport export    *)
(* commands.  A command selects a slice of a buffer's backlog by scanning  *)
(* it from the newest line to the oldest, renders the slice to HTML and    *)
(* writes it to a file that must not exist yet.                            *)
(*                                                                         *)
(* Text is modelled as a sequence of one-character strings, so Python's    *)
(* find/rfind/strip/slices are computed on characters as the code does.    *)
(* The string "ellipsis" stands for the single character U+2026, "color"   *)
(* for one WeeChat colour code and "arrow" for U+21B3.                     *)
(*                                                                         *)
(* Spec is the whole command, from the words WeeChat hands over to the     *)
(* return code it is given back; SpecParse, SpecTime and SpecRender run    *)
(* one step of it (the parsing of a match command, the reading of a time   *)
(* literal, the rendering) on a wider range of inputs.                     *)
(***************************************************************************)
EXTENDS Integers, Sequences, FiniteSets, TLC

(***************************************************************************)
(* Bounds of the model.                                                    *)
(***************************************************************************)
\* longest backlog (number of lines of the buffer)
MaxLen == 4
\* longest backlog of a time export, whose commands are the most numerous
MaxLenTime == 3
\* line timestamps and time-range limits are drawn from 1..MaxTime
MaxTime == 3
\* most words of a raw `/logexport match` argument string (parse checks)
MaxWords == 6
\* most characters of a time literal (time literal checks)
MaxLit == 6
\* most lines of a slice whose dates or prefixes vary (rendering checks)
MaxRows == 3
\* most pieces a message is made of (rendering checks)
MaxPieces == 4

(***************************************************************************)
(* Python primitives on text.                                              *)
(***************************************************************************)
SetMin(S) == CHOOSE x \in S : \A y \in S : x <= y
SetMax(S) == CHOOSE x \in S : \A y \in S : x >= y

\* the absent value (Python's None) and a present value, for optional text
None == <<>>
Some(x) == <<x>>

\* s.find(sub, start): lowest 0-based index >= start where sub occurs, or -1
PyFind(s, sub, start) ==
    LET hits == {i \in start..(Len(s) - Len(sub)) :
                    SubSeq(s, i + 1, i + Len(sub)) = sub}
    IN  IF hits = {} THEN -1 ELSE SetMin(hits)

\* s.rfind(sub): highest 0-based index where sub occurs, or -1
PyRFind(s, sub) ==
    LET hits == {i \in 0..(Len(s) - Len(sub)) :
                    SubSeq(s, i + 1, i + Len(sub)) = sub}
    IN  IF hits = {} THEN -1 ELSE SetMax(hits)

\* s[lo:] for lo >= 0
PySliceFrom(s, lo) == SubSeq(s, lo + 1, Len(s))

\* s[:hi]; a negative hi counts from the end, as in Python
PySliceTo(s, hi) ==
    LET h == IF hi < 0
             THEN (IF Len(s) + hi < 0 THEN 0 ELSE Len(s) + hi)
             ELSE (IF hi > Len(s) THEN Len(s) ELSE hi)
    IN  SubSeq(s, 1, h)

\* s.strip(): leading and trailing blanks removed
PyStrip(s) ==
    LET solid == {i \in 1..Len(s) : s[i] /= " "}
    IN  IF solid = {} THEN <<>> ELSE SubSeq(s, SetMin(solid), SetMax(solid))

\* sub in s
Contains(s, sub) == PyFind(s, sub, 0) >= 0

(***************************************************************************)
(* exportWithTextMatch: parsing of the raw arguments.                      *)
(***************************************************************************)
DelimAscii == <<" ", ".", ".", ".", " ">>
DelimEllipsis == <<" ", "ellipsis", " ">>

posmin(x, y) == IF x < y /\ x >= 0 THEN x ELSE y

\* the three values the handler derives from its raw argument string
ParseMatch(raw) ==
    LET lastspace == PyRFind(raw, <<" ">>)
        file      == PySliceFrom(raw, lastspace + 1)
        rest      == PyStrip(PySliceTo(raw, lastspace))
        splitPos  == posmin(PyFind(rest, DelimAscii, 0),
                            PyFind(rest, DelimEllipsis, 0))
        toPos     == PyFind(rest, <<" ">>, splitPos + 1)
    IN  IF splitPos >= 0
        THEN [outfile   |-> file,
              delimFrom |-> PyStrip(PySliceTo(rest, splitPos)),
              delimTo   |-> Some(PyStrip(PySliceFrom(rest, toPos)))]
        ELSE [outfile   |-> file,
              delimFrom |-> PyStrip(rest),
              delimTo   |-> None]

(***************************************************************************)
(* timestampOfString: a time literal h[:m[:s]] resolved against the clock. *)
(* Instants are whole seconds since the epoch, and the local time zone is  *)
(* taken without offset: day d spans d * DaySeconds .. (d+1) * DaySeconds. *)
(***************************************************************************)
DaySeconds == 24 * 60 * 60

Digits == <<"0", "1", "2", "3", "4", "5", "6", "7", "8", "9">>
IsDigit(c) == \E d \in 1..Len(Digits) : Digits[d] = c
DigitVal(c) == (CHOOSE d \in 1..Len(Digits) : Digits[d] = c) - 1

RECURSIVE DecimalValue(_)
DecimalValue(ds) ==
    IF ds = <<>> THEN 0
    ELSE 10 * DecimalValue(SubSeq(ds, 1, Len(ds) - 1)) + DigitVal(ds[Len(ds)])

\* the digits of a text int() is given, its optional sign taken off
Unsigned(text) ==
    IF text /= <<>> /\ text[1] \in {"-", "+"} THEN Tail(text) ELSE text

\* int(text) raises ValueError unless text is an optionally signed numeral
IsInt(text) ==
    LET digits == Unsigned(text)
    IN  digits /= <<>> /\ \A i \in 1..Len(digits) : IsDigit(digits[i])

PyInt(text) ==
    IF text[1] = "-" THEN 0 - DecimalValue(Unsigned(text))
    ELSE DecimalValue(Unsigned(text))

\* s.split(c) for a one-character separator
RECURSIVE PySplit(_, _)
PySplit(s, c) ==
    LET k == PyFind(s, <<c>>, 0)
    IN  IF k < 0 THEN <<s>>
        ELSE <<PySliceTo(s, k)>> \o PySplit(PySliceFrom(s, k + 1), c)

\* variant: the bound itself let through
InBoundInclusive(v, bound) == ~(v < 0 \/ v > bound)

\* `if v < 0 or v >= bound: raise`
InBound(v, bound) == ~(v < 0 \/ v >= bound)

\* the fields handed to int(): a trailing empty field of a literal with a
\* colon reads 0, and missing fields are filled with 0
TimeFields(spl) ==
    LET spl1 == IF Len(spl) > 1 /\ spl[Len(spl)] = <<>>
                THEN [spl EXCEPT ![Len(spl)] = <<"0">>]
                ELSE spl
    IN  spl1 \o [i \in 1..(3 - Len(spl1)) |-> <<"0">>]

\* Some(<<h, m, s>>), or None where BadlyFormattedTime is raised
ParseTime(timestr) ==
    LET spl == PySplit(PyStrip(timestr), ":")
        f   == TimeFields(spl)
        h   == PyInt(f[1])
        m   == PyInt(f[2])
        s   == PyInt(f[3])
    IN  IF Len(spl) > 3 THEN None
        ELSE IF \E i \in 1..3 : ~IsInt(f[i]) THEN None
        ELSE IF ~(InBound(h, 24) /\ InBound(m, 60) /\ InBound(s, 60))
        THEN None
        ELSE Some(<<h, m, s>>)

ClockSeconds(hms) == hms[1] * 60 * 60 + hms[2] * 60 + hms[3]

\* variant: an occurrence at this very second counted as still to come
IsAheadOrNow(curDatetime, reqDatetime) == curDatetime <= reqDatetime

\* `if curDatetime < reqDatetime`
IsAhead(curDatetime, reqDatetime) == curDatetime < reqDatetime

\* today's occurrence of the time of day, or yesterday's if today's is ahead
ResolveClock(hms, clock) ==
    LET today       == clock \div DaySeconds
        reqDatetime == today * DaySeconds + ClockSeconds(hms)
    IN  IF IsAhead(clock, reqDatetime) THEN reqDatetime - DaySeconds
        ELSE reqDatetime

\* Some(timestamp), or None where BadlyFormattedTime is raised
timestampOfString(timestr, clock) ==
    LET parsed == ParseTime(timestr)
    IN  IF parsed = None THEN None
        ELSE Some(ResolveClock(parsed[1], clock))

(***************************************************************************)
(* The inputs: backlog lines, commands.                                    *)
(***************************************************************************)
Times == 1..MaxTime
\* message texts of backlog lines
Msgs == {<<"a">>, <<"b">>, <<"c">>}
\* anchor texts a match command is built from
Texts == {<<"a">>, <<"b">>}
FileName == <<"f">>

\* a line of the buffer whose data pointer is null carries nothing
NoData == [data |-> FALSE, timestamp |-> 0, prefix |-> <<>>, message |-> <<>>]

\* What is chosen freely for each line of a buffer.  A time or whole export
\* never reads the message and a match export never reads the date, so only
\* the field the command reads is chosen (0, or the empty text: a line with
\* no data); the other field is set from the line's position i, which also
\* keeps the lines of a buffer distinct.
LineChoices(a) ==
    IF a = "match" THEN Msgs \cup {<<>>} ELSE Times \cup {0}

BufferLine(a, i, c) ==
    IF a = "match"
    THEN IF c = <<>> THEN NoData
         ELSE [data |-> TRUE, timestamp |-> i, prefix |-> <<"n">>, message |-> c]
    ELSE IF c = 0 THEN NoData
         ELSE [data |-> TRUE, timestamp |-> c, prefix |-> <<"n">>,
               message |-> <<"c", ToString(i)>>]

BoundedSeq(S, n) == UNION {[1..k -> S] : k \in 0..n}

\* raw arguments of `/logexport match`: <start> [<delimiter> <end>] <filename>
MatchCommands ==
    {s \o <<" ">> \o FileName : s \in Texts}
    \cup {s \o d \o e \o <<" ">> \o FileName :
              s \in Texts, e \in Texts, d \in {DelimAscii, DelimEllipsis}}

\* words a raw argument text is made of, joined by single blanks
Words == {<<"a">>, <<".", ".", ".">>, <<"ellipsis">>}

RECURSIVE Join(_)
Join(ws) ==
    IF Len(ws) = 0 THEN <<>>
    ELSE IF Len(ws) = 1 THEN ws[1]
    ELSE ws[1] \o <<" ">> \o Join(Tail(ws))

WordCommands == {Join(ws) : ws \in BoundedSeq(Words, MaxWords) \ {<<>>}}

\* time literals of the export commands: the time of day 0:0:t reads t
\* seconds on the epoch day, and one literal is no time at all
TimeLiteral(t) == <<"0", ":", "0", ":", ToString(t)>>
BadLiteral == <<"x">>
TimeLiterals == {TimeLiteral(t) : t \in Times} \cup {BadLiteral}

\* arguments of `/logexport time`: <start> [<end>] (then the filename)
TimeCommands == {t \in BoundedSeq(TimeLiterals, 2) : Len(t) >= 1}

\* the first word of a command: a subcommand, another word, or none
Actions == {"time", "match", "whole", "help", "other", "none"}

\* the words after the subcommand.  A time export is given its literals and
\* a file name, or too few words, or too many; a whole export a file name,
\* or none, or two.
CommandWords(a) ==
    CASE a = "time" ->
            {[timeArgs |-> t, fileArgs |-> <<FileName>>] : t \in TimeCommands}
            \cup {[timeArgs |-> <<>>, fileArgs |-> <<>>],
                  [timeArgs |-> <<>>, fileArgs |-> <<FileName>>],
                  [timeArgs |-> <<TimeLiteral(1), TimeLiteral(1)>>,
                   fileArgs |-> <<FileName, FileName>>]}
      [] a = "whole" ->
            {[timeArgs |-> <<>>, fileArgs |-> f] :
                f \in {<<>>, <<FileName>>, <<FileName, FileName>>}}
      [] OTHER -> {[timeArgs |-> <<>>, fileArgs |-> <<>>]}

LogLine(l) == [timestamp |-> l.timestamp, prefix |-> l.prefix, line |-> l.message]

\* the buffers, oldest line first
Backlogs(a) ==
    {[i \in 1..Len(cs) |-> BufferLine(a, i, cs[i])] :
        cs \in BoundedSeq(LineChoices(a),
                           IF a = "time" THEN MaxLenTime ELSE MaxLen)}

RECURSIVE Reverse(_)
Reverse(s) == IF s = <<>> THEN <<>> ELSE Append(Reverse(Tail(s)), Head(s))

VARIABLES
    pc,          \* position in the command: start, scan, endscan, render, write, done, error, helped
    action,      \* the subcommand: time, match, whole, help, other (no subcommand), none (no word)
    rawargs,     \* match: the raw argument text
    timeArgs,    \* time: the time literals given, <start> [<end>]
    fileArgs,    \* time, whole: the words that follow, the file name
    rc,          \* what logexport_cmd returned to WeeChat, once it has
    errorLog,    \* the messages logError printed
    now,         \* the clock, in seconds since the epoch
    colorsForBuffer, \* renderHtml's table of the buffer's nicks, once read
    nickColorCalls,  \* renderHtml.nickColor: the calls made, in order
    backlog,     \* the buffer's lines, oldest first
    cLine,       \* index of the line being visited (0: null pointer)
    gathered,    \* lines kept so far, newest first
    reachedTop,  \* False only if the scan was left by StopExport
    start_time, end_time,          \* time: the window
    delimFrom, delimTo, outfile,   \* match: the anchors; the file name
    endFound, done,                \* match: shouldExport's two flags
    html,        \* the rendered document, once rendered
    file,        \* the destination path: None, or Some(content)
    fileAtStart, \* the destination path as the command found it
    err,         \* the exception that ended the command, if any
    nDecide,     \* calls of mustExportLine on a line
    stopSignalled, \* whether a call raised StopExport
    nFinish,     \* calls of mustExportLine(None, None, None)
    nWrites      \* writes to the destination

vars == <<pc, action, rawargs, timeArgs, fileArgs, rc, errorLog, now, colorsForBuffer, nickColorCalls, backlog, cLine, gathered, reachedTop,
          start_time, end_time, delimFrom, delimTo, outfile, endFound, done,
          html, file, fileAtStart, err, nDecide, stopSignalled, nFinish, nWrites>>

OldFile == [kind |-> "old", lines |-> <<>>]

Init ==
    /\ pc = "start"
    /\ action \in Actions
    /\ rawargs \in (IF action = "match" THEN MatchCommands ELSE {<<>>})
    /\ \E c \in CommandWords(action) :
          timeArgs = c.timeArgs /\ fileArgs = c.fileArgs
    /\ rc = "none" /\ errorLog = <<>>
    /\ now = MaxTime
    /\ colorsForBuffer = None
    /\ nickColorCalls = <<>>
    /\ backlog \in (IF action \in {"time", "match", "whole"}
                    THEN Backlogs(action) ELSE {<<>>})
    /\ cLine = 0
    /\ gathered = <<>>
    /\ reachedTop = TRUE
    /\ start_time = 0 /\ end_time = 0
    /\ delimFrom = <<>> /\ delimTo = None /\ outfile = <<>>
    /\ endFound = FALSE /\ done = FALSE
    /\ html = None
    /\ file \in {None, Some(OldFile)}
    /\ fileAtStart = file
    /\ err = "none"
    /\ nDecide = 0 /\ stopSignalled = FALSE /\ nFinish = 0 /\ nWrites = 0

(***************************************************************************)
(* The three selection predicates (the shouldExport closures).  A call on  *)
(* a line answers Include (return True), Exclude (return False) or Stop    *)
(* (raise StopExport); the call on (None, None, None) answers "ok" or the  *)
(* exception it raises.                                                    *)
(***************************************************************************)
\* variant: the window's start taken as exclusive
TimeDecideExclusiveStart(timestamp, start, end) ==
    IF timestamp <= start THEN "Stop"
    ELSE IF timestamp <= end THEN "Include"
    ELSE "Exclude"

TimeDecide(timestamp, start, end) ==
    IF timestamp < start THEN "Stop"
    ELSE IF timestamp <= end THEN "Include"
    ELSE "Exclude"

TimeFinish == "ok"

\* variant: the line that holds the end anchor is also tried as the start
MatchDecideSameLine(msg, from, to, eFound, dn) ==
    IF dn
    THEN [res |-> "Stop", endFound |-> eFound, done |-> dn]
    ELSE IF ~eFound /\ ~(to /= None /\ PyFind(msg, to[1], 0) >= 0)
    THEN [res |-> "Exclude", endFound |-> eFound, done |-> dn]
    ELSE [res |-> "Include", endFound |-> TRUE,
          done |-> IF PyFind(msg, from, 0) >= 0 THEN TRUE ELSE dn]

\* variant: the start anchor is noticed before the end anchor was found
MatchDecideStartAnyPhase(msg, from, to, eFound, dn) ==
    IF dn
    THEN [res |-> "Stop", endFound |-> eFound, done |-> dn]
    ELSE IF ~eFound /\ to /= None /\ PyFind(msg, to[1], 0) >= 0
    THEN [res |-> "Include", endFound |-> TRUE, done |-> dn]
    ELSE IF ~eFound
    THEN [res |-> "Exclude", endFound |-> eFound,
          done |-> IF PyFind(msg, from, 0) >= 0 THEN TRUE ELSE dn]
    ELSE [res |-> "Include", endFound |-> eFound,
          done |-> IF PyFind(msg, from, 0) >= 0 THEN TRUE ELSE dn]

\* the answer and the two flags after the call
MatchDecide(msg, from, to, eFound, dn) ==
    IF dn
    THEN [res |-> "Stop", endFound |-> eFound, done |-> dn]
    ELSE IF ~eFound /\ to /= None /\ PyFind(msg, to[1], 0) >= 0
    THEN [res |-> "Include", endFound |-> TRUE, done |-> dn]
    ELSE IF ~eFound
    THEN [res |-> "Exclude", endFound |-> eFound, done |-> dn]
    ELSE [res |-> "Include", endFound |-> eFound,
          done |-> IF PyFind(msg, from, 0) >= 0 THEN TRUE ELSE dn]

\* variant: a missing start anchor goes unreported
MatchFinishNoStartCheck(eFound, dn) ==
    IF ~eFound THEN "EndAnchorNotFound" ELSE "ok"

\* variant: the two failures reported the wrong way round
MatchFinishSwapped(eFound, dn) ==
    IF ~dn THEN "EndAnchorNotFound"
    ELSE IF ~eFound THEN "StartAnchorNotFound"
    ELSE "ok"

MatchFinish(eFound, dn) ==
    IF ~eFound THEN "EndAnchorNotFound"
    ELSE IF ~dn THEN "StartAnchorNotFound"
    ELSE "ok"

WholeDecide == "Include"

WholeFinish == "ok"

\* mustExportLine(timestamp, prefix, msg) for the running command
Decide(l) ==
    CASE action = "time" ->
            [res |-> TimeDecide(l.timestamp, start_time, end_time),
             endFound |-> endFound, done |-> done]
      [] action = "match" ->
            MatchDecide(l.message, delimFrom, delimTo, endFound, done)
      [] OTHER ->
            [res |-> WholeDecide, endFound |-> endFound, done |-> done]

\* mustExportLine(None, None, None) for the running command
Finish ==
    CASE action = "time" -> TimeFinish
      [] action = "match" -> MatchFinish(endFound, done)
      [] OTHER -> WholeFinish

(***************************************************************************)
(* The way back to WeeChat, through the error-catching layers.  A call     *)
(* ends with a value returned or with an exception raised, and with the    *)
(* messages logError has printed.                                          *)
(***************************************************************************)
Returned(value, log) == [raised |-> None, value |-> value, log |-> log]
Raised(e, log) == [raised |-> Some(e), value |-> "None", log |-> log]

\* variant: an ERROR handed up by the wrapped function is logged as well
CatchWeechatFailLoud(r) ==
    IF r.raised /= None THEN Returned("ERROR", Append(r.log, r.raised[1]))
    ELSE IF r.value = "ERROR"
    THEN Returned("ERROR", Append(r.log, "ERROR"))
    ELSE Returned("OK", r.log)

\* catchWeechatFail.wrap around a call that ended with r: an exception is
\* logged and becomes ERROR; ERROR is handed on; anything else becomes OK
CatchWeechatFail(r) ==
    IF r.raised /= None THEN Returned("ERROR", Append(r.log, r.raised[1]))
    ELSE IF r.value = "ERROR" THEN Returned("ERROR", r.log)
    ELSE Returned("OK", r.log)

\* the exceptions raised in the handler itself, before logexport_export_cmd
HandlerErrors == {"BadArguments", "BadlyFormattedTime"}
\* the exceptions raised in logexport_export_cmd
ExportCmdErrors ==
    {"EndAnchorNotFound", "StartAnchorNotFound", "ThemeNotConfigured",
     "RenderFailure", "ExportPathNotSet", "DestinationExists",
     "IOErrorOnOpen", "IOErrorOnWrite"}
\* the exceptions that are a KeyError
KeyErrors == {"UnknownAction", "RenderFailure"}

\* how the body of logexport_export_cmd ended, e being what it raised
ExportCmdBody(e) ==
    IF e \in ExportCmdErrors THEN Raised(e, <<>>)
    ELSE Returned("None", <<>>)

\* how the body of the handler ended: helpMsg returns nothing, an export
\* handler raises or returns what the wrapped logexport_export_cmd returns
HandlerBody(e) ==
    IF action = "help" THEN Returned("None", <<>>)
    ELSE IF e \in HandlerErrors THEN Raised(e, <<>>)
    ELSE CatchWeechatFail(ExportCmdBody(e))

\* `try: return ACTION_OF_ARG[args[0]](...)  except KeyError:`
ExceptKeyError(r) ==
    IF r.raised /= None /\ r.raised[1] \in KeyErrors
    THEN Returned("ERROR", Append(r.log, "UnknownAction"))
    ELSE r

\* how logexport_cmd ended
LogexportCmd(e) ==
    IF e = "NoArgument" THEN Returned("ERROR", <<"NoArgument">>)
    ELSE IF e = "UnknownAction"
    THEN ExceptKeyError(Raised("UnknownAction", <<>>))
    ELSE ExceptKeyError(CatchWeechatFail(HandlerBody(e)))

\* The step that ends the command (pc becomes done, error or helped) is
\* also the return of logexport_cmd: WeeChat is given the return code, or
\* the exception, and the errors are logged.  Any other step leaves both.
ReturnToHost ==
    IF pc' \in {"done", "error", "helped"}
    THEN LET r == LogexportCmd(err')
         IN  /\ rc' = IF r.raised /= None THEN "raised" ELSE r.value
             /\ errorLog' = r.log
    ELSE UNCHANGED <<rc, errorLog>>

(***************************************************************************)
(* The handlers up to the scan: each sets its predicate up and enters      *)
(* logexport_export_cmd, whose loop starts at the buffer's last line.      *)
(***************************************************************************)
\* `while cLine:` is left as soon as the pointer is null
LoopAt(c) == IF c = 0 THEN "endscan" ELSE "scan"

EnterScan ==
    /\ cLine' = Len(backlog)
    /\ gathered' = <<>>
    /\ reachedTop' = TRUE
    /\ pc' = LoopAt(Len(backlog))

\* variant: an end literal that is no time read as the current time
WindowLenient(args, clock) ==
    [start |-> timestampOfString(args[1], clock),
     end   |-> IF Len(args) = 1 \/ timestampOfString(args[2], clock) = None
               THEN Some(clock)
               ELSE timestampOfString(args[2], clock)]

\* the window's limits as exportWithTimes computes them before the scan:
\* each is Some(timestamp), or None where BadlyFormattedTime is raised
Window(args, clock) ==
    [start |-> timestampOfString(args[1], clock),
     end   |-> IF Len(args) = 1 THEN Some(clock)
               ELSE timestampOfString(args[2], clock)]

ExportWithTimes ==
    /\ pc = "start" /\ action = "time"
    /\ LET args == timeArgs \o fileArgs
           w    == Window(SubSeq(args, 1, Len(args) - 1), now)
       IN  IF Len(args) \notin {2, 3}
           THEN /\ pc' = "error" /\ err' = "BadArguments"
                /\ UNCHANGED <<start_time, end_time, outfile, cLine,
                               gathered, reachedTop>>
           ELSE IF w.start = None \/ w.end = None
           THEN /\ pc' = "error" /\ err' = "BadlyFormattedTime"
                /\ UNCHANGED <<start_time, end_time, outfile, cLine,
                               gathered, reachedTop>>
           ELSE /\ start_time' = w.start[1]
                /\ end_time' = w.end[1]
                /\ outfile' = args[Len(args)]
                /\ EnterScan
                /\ UNCHANGED err
    /\ UNCHANGED <<action, rawargs, timeArgs, fileArgs, now, colorsForBuffer, nickColorCalls, backlog,
                   delimFrom, delimTo, endFound, done, html, file,
                   fileAtStart, nDecide, stopSignalled, nFinish, nWrites>>
    /\ ReturnToHost

ExportWithTextMatch ==
    /\ pc = "start" /\ action = "match"
    /\ LET p == ParseMatch(rawargs)
       IN  /\ outfile' = p.outfile
           /\ delimFrom' = p.delimFrom
           /\ delimTo' = p.delimTo
           /\ endFound' = (p.delimTo = None)
    /\ done' = FALSE
    /\ EnterScan
    /\ UNCHANGED <<action, rawargs, timeArgs, fileArgs, now, colorsForBuffer, nickColorCalls, backlog, start_time, end_time,
                   html, file, fileAtStart, err, nDecide, stopSignalled, nFinish, nWrites>>
    /\ ReturnToHost

ExportWithWhole ==
    /\ pc = "start" /\ action = "whole"
    /\ IF Len(fileArgs) /= 1
       THEN /\ pc' = "error" /\ err' = "BadArguments"
            /\ UNCHANGED <<outfile, cLine, gathered, reachedTop>>
       ELSE /\ outfile' = fileArgs[1]
            /\ EnterScan
            /\ UNCHANGED err
    /\ UNCHANGED <<action, rawargs, timeArgs, fileArgs, now, colorsForBuffer, nickColorCalls, backlog, start_time, end_time,
                   delimFrom, delimTo, endFound, done, html, file, fileAtStart,
                   nDecide, stopSignalled, nFinish, nWrites>>
    /\ ReturnToHost

(***************************************************************************)
(* logexport_export_cmd: the backward scan.                                *)
(***************************************************************************)
\* variant: the flag left as it was
ReachedTopOnStopKept == TRUE

\* the value of reachedTop after `except StopExport`
ReachedTopOnStop == FALSE

\* variant: a kept line put before the lines kept so far
GatherFirst(g, line) == <<line>> \o g

\* gathered.append(LogLine(timestamp, prefix, msg))
Gather(g, line) == Append(g, line)

\* one iteration of the loop, on the line cLine points to
ScanLine ==
    /\ pc = "scan" /\ cLine > 0
    /\ LET l == backlog[cLine]
           d == Decide(l)
       IN  IF ~l.data
           THEN /\ cLine' = cLine - 1
                /\ pc' = LoopAt(cLine - 1)
                /\ UNCHANGED <<gathered, reachedTop, endFound, done, nDecide, stopSignalled>>
           ELSE /\ nDecide' = nDecide + 1
                /\ stopSignalled' = (d.res = "Stop")
                /\ endFound' = d.endFound
                /\ done' = d.done
                /\ IF d.res = "Stop"
                   THEN /\ reachedTop' = ReachedTopOnStop
                        /\ pc' = "endscan"
                        /\ UNCHANGED <<cLine, gathered>>
                   ELSE /\ gathered' = IF d.res = "Include"
                                       THEN Gather(gathered, LogLine(l))
                                       ELSE gathered
                        /\ cLine' = cLine - 1
                        /\ pc' = LoopAt(cLine - 1)
                        /\ UNCHANGED reachedTop
    /\ UNCHANGED <<action, rawargs, timeArgs, fileArgs, now, colorsForBuffer, nickColorCalls, backlog, start_time, end_time,
                   delimFrom, delimTo, outfile, html, file, fileAtStart, err,
                   nFinish, nWrites>>
    /\ ReturnToHost

\* variant: the predicate's exception is dropped
AfterFinishIgnored(result) == "render"

\* an exception of the predicate ends the command; otherwise it goes on
AfterFinish(result) == IF result = "ok" THEN "render" ELSE "error"

\* after the loop: the predicate is told the top was reached, if it was
EndOfScan ==
    /\ pc = "endscan"
    /\ IF reachedTop
       THEN /\ nFinish' = nFinish + 1
            /\ pc' = AfterFinish(Finish)
            /\ err' = IF Finish = "ok" THEN err ELSE Finish
       ELSE pc' = "render" /\ UNCHANGED <<nFinish, err>>
    /\ UNCHANGED <<action, rawargs, timeArgs, fileArgs, now, colorsForBuffer, nickColorCalls, backlog, cLine, gathered,
                   reachedTop, start_time, end_time, delimFrom, delimTo,
                   outfile, endFound, done, html, file, fileAtStart,
                   nDecide, stopSignalled, nWrites>>
    /\ ReturnToHost

(***************************************************************************)
(* renderHtml.escape and enhanceMessageLine, on characters.  The string    *)
(* "color" stands for one WeeChat colour code.                             *)
(***************************************************************************)
ColorCode == "color"

\* characters the regular expressions count as word characters (\w)
WordChars ==
    {"a", "b", "c", "d", "e", "f", "g", "h", "i", "j", "k", "l", "m", "n",
     "o", "p", "q", "r", "s", "t", "u", "v", "w", "x", "y", "z", "_",
     "0", "1", "2", "3", "4", "5", "6", "7", "8", "9"}
HasWordChar(text) == \E i \in 1..Len(text) : text[i] \in WordChars

\* \b at 0-based position k of s: a word character on exactly one side
WordAt(s, i) == i \in 1..Len(s) /\ s[i] \in WordChars
Boundary(s, k) == WordAt(s, k) /= WordAt(s, k + 1)

\* weechat.string_remove_color(s, ''): the colour codes are taken out
StringRemoveColor(s) ==
    LET Kept(c) == c /= ColorCode
    IN  SelectSeq(s, Kept)

\* s.replace(c, rep) for a one-character c
RECURSIVE PyReplace(_, _, _)
PyReplace(s, c, rep) ==
    IF s = <<>> THEN <<>>
    ELSE (IF Head(s) = c THEN rep ELSE <<Head(s)>>)
         \o PyReplace(Tail(s), c, rep)

Amp == <<"&", "a", "m", "p", ";">>
Lt == <<"&", "l", "t", ";">>
Gt == <<"&", "g", "t", ";">>

\* variant: the ampersand replaced last
EscapeAmpLast(s) ==
    PyReplace(PyReplace(PyReplace(StringRemoveColor(s), "<", Lt), ">", Gt),
              "&", Amp)

\* renderHtml.escape
Escape(s) ==
    PyReplace(PyReplace(PyReplace(StringRemoveColor(s), "&", Amp), "<", Lt),
              ">", Gt)

\* the characters URL_REGEX lets follow the scheme
UrlChars ==
    WordChars \cup {"-", "@", ":", "%", ".", "+", "~", "#", "=", "?", "&", "/"}

Http == <<"h", "t", "t", "p", ":", "/", "/">>
Https == <<"h", "t", "t", "p", "s", ":", "/", "/">>

StartsAt(s, k, sub) ==
    k + Len(sub) <= Len(s) /\ SubSeq(s, k + 1, k + Len(sub)) = sub

\* where URL_REGEX, tried at position k, ends its match (-1: no match):
\* \b, the scheme, at least two URL characters, as many as end at a \b
UrlEnd(s, k) ==
    LET p    == IF StartsAt(s, k, Https) THEN k + Len(Https)
                ELSE IF StartsAt(s, k, Http) THEN k + Len(Http)
                ELSE -1
        ends == {e \in (p + 2)..Len(s) :
                    /\ \A i \in (p + 1)..e : s[i] \in UrlChars
                    /\ Boundary(s, e)}
    IN  IF p < 0 \/ ~Boundary(s, k) \/ ends = {} THEN -1 ELSE SetMax(ends)

AnchorOpen == <<"<", "a", " ", "h", "r", "e", "f", "=", "\"">>
AnchorMid == <<"\"", ">">>
AnchorClose == <<"<", "/", "a", ">">>
Anchor(url) == AnchorOpen \o url \o AnchorMid \o url \o AnchorClose

\* re.sub(URL_REGEX, '<a href="\1">\1</a>', msg), from position k on
RECURSIVE SubUrls(_, _)
SubUrls(s, k) ==
    IF k >= Len(s) THEN <<>>
    ELSE LET end == UrlEnd(s, k)
         IN  IF end >= 0
             THEN Anchor(SubSeq(s, k + 1, end)) \o SubUrls(s, end)
             ELSE <<s[k + 1]>> \o SubUrls(s, k + 1)

\* enhanceMessageLine.clickableUrls
ClickableUrls(msg) == SubUrls(msg, 0)

\* weechat.info_get('nick_color_name', nick): WeeChat's colour name for a
\* nick, a name that depends on the nick alone
NickColorName(nick) == <<"c", "-">> \o nick

SpanOpen ==
    <<"<", "s", "p", "a", "n", " ", "c", "l", "a", "s", "s", "=", "\"",
      "c", "o", "l", "o", "r", "-">>
SpanMid == <<"\"", ">">>
SpanClose == <<"<", "/", "s", "p", "a", "n", ">">>
Span(color, nick) == SpanOpen \o color \o SpanMid \o nick \o SpanClose

\* the alternatives of \b(nick|...)\b; with no nick, the empty one.  The
\* nicks of the model are no prefixes of one another, so at most one fits.
Alternatives(nicks) == IF nicks = {} THEN {<<>>} ELSE nicks

\* the alternative colorsRegex matches at position k: Some(nick), or None
NickAt(s, k, nicks) ==
    LET hits == {n \in Alternatives(nicks) :
                    /\ Boundary(s, k)
                    /\ StartsAt(s, k, n)
                    /\ Boundary(s, k + Len(n))}
    IN  IF hits = {} THEN None ELSE Some(CHOOSE n \in hits : TRUE)

\* nickColors[nick] raises KeyError on a match that is no nick of the table
ApplyColorsRaises(msg, nicks) ==
    \E k \in 0..Len(msg) :
        LET match == NickAt(msg, k, nicks)
        IN  match /= None /\ match[1] \notin nicks

\* the loop of applyColors over the matches found from position k on
RECURSIVE ColorsFrom(_, _, _, _)
ColorsFrom(msg, k, lastStop, nicks) ==
    IF k >= Len(msg) THEN PySliceFrom(msg, lastStop)
    ELSE LET match == NickAt(msg, k, nicks)
         IN  IF match /= None /\ match[1] /= <<>>
             THEN LET nick == match[1]
                      end  == k + Len(nick)
                  IN  SubSeq(msg, lastStop + 1, k)
                      \o Span(NickColorName(nick), nick)
                      \o ColorsFrom(msg, end, end + 1, nicks)
             ELSE ColorsFrom(msg, k + 1, lastStop, nicks)

\* enhanceMessageLine.applyColors, undecorated
ApplyColors(msg, nicks) == ColorsFrom(msg, 0, 0, nicks)

\* splitAtMatchingTag's loop: the position of the '>' that closes, or -1
RECURSIVE MatchingClose(_, _, _)
MatchingClose(msg, pos, opening) ==
    IF pos >= Len(msg) THEN -1
    ELSE IF msg[pos + 1] = "<" THEN MatchingClose(msg, pos + 1, opening + 1)
    ELSE IF msg[pos + 1] = ">"
    THEN (IF opening - 1 < 0 THEN pos
          ELSE MatchingClose(msg, pos + 1, opening - 1))
    ELSE MatchingClose(msg, pos + 1, opening)

InTag(part) ==
    LET close == MatchingClose(part, 0, 0)
    IN  IF close < 0 THEN <<>> ELSE PySliceTo(part, close)
AfterTag(part) ==
    LET close == MatchingClose(part, 0, 0)
    IN  IF close < 0 THEN part ELSE PySliceFrom(part, close + 1)

\* the texts the decorated applyColors is run on: those outside the tags
OutsideTags(msg) ==
    LET parts == PySplit(msg, "<")
    IN  [i \in 1..Len(parts) |->
            IF i = 1 THEN parts[1] ELSE AfterTag(parts[i])]

RECURSIVE DecorateParts(_, _)
DecorateParts(parts, nicks) ==
    IF parts = <<>> THEN <<>>
    ELSE <<"<">> \o InTag(Head(parts)) \o <<">">>
         \o ApplyColors(AfterTag(Head(parts)), nicks)
         \o DecorateParts(Tail(parts), nicks)

\* variant: applyColors run on the whole text, tags included
UnshieldedColors(msg, nicks) == ApplyColors(msg, nicks)

\* shieldTags(applyColors)
ShieldedColors(msg, nicks) ==
    LET parts == PySplit(msg, "<")
    IN  ApplyColors(parts[1], nicks) \o DecorateParts(Tail(parts), nicks)

EnhanceRaises(msg, nicks) ==
    LET texts == OutsideTags(ClickableUrls(msg))
    IN  \E i \in 1..Len(texts) : ApplyColorsRaises(texts[i], nicks)

\* applyColors(clickableUrls(msg))
EnhanceMessageLine(msg, nicks) == ShieldedColors(ClickableUrls(msg), nicks)

(***************************************************************************)
(* renderHtml: rows and day sections.  The body is modelled as the         *)
(* sequence of its elements: [el |-> "h3"] a day heading, "table" and      *)
(* "/table" the opening and the closing of a table, "tr" a row.  Dates are *)
(* day numbers since the epoch, times of day are seconds.                  *)
(***************************************************************************)
NONHUMAN_PREFIXES ==
    {Escape(x) : x \in {<<"-", "-">>, <<"-", "-", ">">>, <<"<", "-", "-">>,
                        <<"=", "!", "=">>, <<>>}}

DefaultColor == <<"d", "e", "f", "a", "u", "l", "t">>

\* renderHtml.nickColor: the sentinels are preset, a nick is asked for
NickColor(nick) ==
    IF nick \in NONHUMAN_PREFIXES THEN DefaultColor ELSE NickColorName(nick)

NickPrefixColor(nickPrefix) ==
    CASE nickPrefix = <<"!">> -> "owner"
      [] nickPrefix = <<"@">> -> "op"
      [] nickPrefix = <<"%">> -> "halfop"
      [] nickPrefix = <<"~">> -> "owner"
      [] nickPrefix = <<"+">> -> "voice"
      [] OTHER -> "none"

\* variant: a repeated prefix collapses whatever it is
IsLineContinuationAny(prefix, lastPrefix) == prefix = lastPrefix

IsLineContinuation(prefix, lastPrefix) ==
    prefix \notin NONHUMAN_PREFIXES /\ prefix = lastPrefix

Nonhuman(prefix) == prefix \in NONHUMAN_PREFIXES

\* formatRow.splitPrefix: the role mark and the nick
NickPrefixOf(prefix) ==
    IF ~Nonhuman(prefix) /\ prefix /= <<>>
       /\ prefix[1] \in {"!", "@", "~", "%", "+"}
    THEN <<prefix[1]>> ELSE <<>>
NickOf(prefix) ==
    IF NickPrefixOf(prefix) /= <<>> THEN Tail(prefix) ELSE prefix

\* the mark shown in place of a repeated nick (U+21B3)
ContinuationMark == <<"arrow">>

FormatRow(time, prefix, line, lastPrefix, nicks) ==
    [el          |-> "tr",
     nonhuman    |-> Nonhuman(prefix),
     time        |-> time,
     color       |-> NickColor(NickOf(prefix)),
     prefixClass |-> NickPrefixColor(NickPrefixOf(prefix)),
     nickPrefix  |-> IF IsLineContinuation(prefix, lastPrefix) THEN <<>>
                     ELSE NickPrefixOf(prefix),
     nick        |-> IF IsLineContinuation(prefix, lastPrefix)
                     THEN ContinuationMark ELSE NickOf(prefix),
     message     |-> EnhanceMessageLine(line, nicks)]

\* datetime.fromtimestamp(t).date() and .time()
DateOf(timestamp) == timestamp \div DaySeconds
TimeOf(timestamp) == timestamp % DaySeconds

\* what is written where the date changes: the closing of the table before
\* (if anything was written yet), the day's heading, the table's opening
DayChange(formatted, date) ==
    (IF formatted /= <<>> THEN <<[el |-> "/table"]>> ELSE <<>>)
    \o <<[el |-> "h3", date |-> date], [el |-> "table"]>>

\* the loop of renderHtml from line i on, and the closing after it
RECURSIVE RenderLines(_, _, _, _, _, _)
RenderLines(lines, i, formatted, prevDate, lastPrefix, nicks) ==
    IF i > Len(lines) THEN formatted \o <<[el |-> "/table"]>>
    ELSE LET cDate  == DateOf(lines[i].timestamp)
             opened == IF cDate /= prevDate
                       THEN formatted \o DayChange(formatted, cDate)
                       ELSE formatted
             row    == FormatRow(TimeOf(lines[i].timestamp),
                                 Escape(lines[i].prefix),
                                 Escape(lines[i].line),
                                 Escape(lastPrefix), nicks)
         IN  RenderLines(lines, i + 1, opened \o <<row>>, cDate,
                         lines[i].prefix, nicks)

\* the body renderHtml returns: prevDate starts on the epoch's day
Body(lines, nicks) == RenderLines(lines, 1, <<>>, DateOf(0), <<>>, nicks)

(***************************************************************************)
(* logexport_export_cmd: rendering and writing.                            *)
(***************************************************************************)

\* the buffer's nick list, as read when rendering: none, or entries of type
\* group and of type nick, with one nick listed in two groups
Group == [type |-> "group", name |-> <<"g">>]
Nick(name) == [type |-> "nick", name |-> name]
NickLists ==
    {<<>>, <<Group, Nick(<<"n">>), Group, Nick(<<"n">>)>>}

\* renderHtml.nicksColorsForBuffer: the names of the entries of type nick
NicksColorsForBuffer(nicklist) ==
    {nicklist[i].name : i \in {k \in 1..Len(nicklist) : nicklist[k].type = "nick"}}

\* variant: the table of colours already asked for is never consulted
InColorsNever(nick, colors) == FALSE

\* `nick in weechatNickColors`
InColors(nick, colors) == nick \in colors

\* The calls of nickColor for a sequence of requests [nick, row], given the
\* nicks weechatNickColors holds: each call is recorded with whether it
\* asked WeeChat (info_get nick_color_name), and a nick asked for is held
\* from then on.
RECURSIVE NickColorCalls(_, _, _)
NickColorCalls(requests, colors, calls) ==
    IF requests = <<>> THEN calls
    ELSE LET r == Head(requests)
         IN  NickColorCalls(Tail(requests), colors \cup {r.nick},
                            Append(calls, [nick  |-> r.nick, row |-> r.row,
                                           asked |-> ~InColors(r.nick, colors)]))

\* nicksColorsForBuffer asks for each entry of type nick (row 0: no row)
NickListRequests(nicklist) ==
    LET nickEntries == SelectSeq(nicklist, LAMBDA e : e.type = "nick")
    IN  [i \in 1..Len(nickEntries) |-> [nick |-> nickEntries[i].name, row |-> 0]]

\* formatRow asks for the nick of each row, before it works on the message:
\* the rows up to the first whose message raises, that one included
RowRequests(slice, nicks) ==
    LET raising == {i \in 1..Len(slice) :
                       EnhanceRaises(Escape(slice[i].line), nicks)}
        last    == IF raising = {} THEN Len(slice) ELSE SetMin(raising)
    IN  [i \in 1..last |-> [nick |-> NickOf(Escape(slice[i].prefix)), row |-> i]]

\* the calls of one renderHtml, weechatNickColors holding the sentinels first
RenderNickColorCalls(slice, nicklist) ==
    NickColorCalls(NickListRequests(nicklist)
                       \o RowRequests(slice, NicksColorsForBuffer(nicklist)),
                   NONHUMAN_PREFIXES, <<>>)

\* With no nick in the buffer the colour pattern is \b()\b: it matches the
\* empty nick at a word boundary, and nickColors[''] raises KeyError.
RenderRaises(slice, nicks) ==
    \E i \in 1..Len(slice) : EnhanceRaises(Escape(slice[i].line), nicks)

\* variant: the gathered lines handed over as they are, newest first
SliceOfUnreversed(g) == g

\* gathered[::-1]: the slice, oldest line first
SliceOf(g) == Reverse(g)

\* the document: the slice it was made from and the body made from it
Document(slice, nicks) ==
    [kind |-> "html", lines |-> slice, body |-> Body(slice, nicks)]
PartialFile == [kind |-> "partial", lines |-> <<>>]

\* renderHtml(gathered[::-1], buff), wrapped by wrapInHtml
RenderHtml ==
    /\ pc = "render"
    /\ \E themeSet \in BOOLEAN, nicklist \in NickLists :
          LET slice == SliceOf(gathered)
              nicks == NicksColorsForBuffer(nicklist)
          IN  IF ~themeSet
              THEN /\ pc' = "error" /\ err' = "ThemeNotConfigured"
                   /\ UNCHANGED <<html, colorsForBuffer, nickColorCalls>>
              ELSE /\ colorsForBuffer' = Some(nicks)
                   /\ nickColorCalls' = RenderNickColorCalls(slice, nicklist)
                   /\ IF RenderRaises(slice, nicks)
                      THEN pc' = "error" /\ err' = "RenderFailure"
                           /\ UNCHANGED html
                      ELSE pc' = "write" /\ html' = Some(Document(slice, nicks))
                           /\ UNCHANGED err
    /\ UNCHANGED <<action, rawargs, timeArgs, fileArgs, now, backlog, cLine, gathered,
                   reachedTop, start_time, end_time, delimFrom, delimTo,
                   outfile, endFound, done, file, fileAtStart,
                   nDecide, stopSignalled, nFinish, nWrites>>
    /\ ReturnToHost

\* variant: the existence test left out
ExistsNever(f) == FALSE

\* os.path.exists(path)
Exists(f) == f /= None

\* writeFile(html, formatFilePath(exportFile))
WriteFile ==
    /\ pc = "write"
    /\ \E pathSet \in BOOLEAN, io \in {"ok", "openFails", "writeFails"} :
          IF ~pathSet
          THEN pc' = "error" /\ err' = "ExportPathNotSet"
               /\ UNCHANGED <<file, nWrites>>
          ELSE IF Exists(file)
          THEN pc' = "error" /\ err' = "DestinationExists"
               /\ UNCHANGED <<file, nWrites>>
          ELSE CASE io = "ok" ->
                      /\ file' = Some(html[1]) /\ nWrites' = nWrites + 1
                      /\ pc' = "done" /\ UNCHANGED err
                 [] io = "openFails" ->
                      /\ pc' = "error" /\ err' = "IOErrorOnOpen"
                      /\ UNCHANGED <<file, nWrites>>
                 [] OTHER ->
                      /\ file' = Some(PartialFile) /\ nWrites' = nWrites + 1
                      /\ pc' = "error" /\ err' = "IOErrorOnWrite"
    /\ UNCHANGED <<action, rawargs, timeArgs, fileArgs, now, colorsForBuffer, nickColorCalls, backlog, cLine, gathered,
                   reachedTop, start_time, end_time, delimFrom, delimTo,
                   outfile, endFound, done, html, fileAtStart,
                   nDecide, stopSignalled, nFinish>>
    /\ ReturnToHost

(***************************************************************************)
(* logexport_cmd: what is no export.                                       *)
(***************************************************************************)
\* `if len(args) < 1`: the error is logged by logexport_cmd itself
NoArgument ==
    /\ pc = "start" /\ action = "none"
    /\ pc' = "error" /\ err' = "NoArgument"
    /\ UNCHANGED <<action, rawargs, timeArgs, fileArgs, now,
                   colorsForBuffer, nickColorCalls, backlog, cLine, gathered,
                   reachedTop, start_time, end_time, delimFrom, delimTo,
                   outfile, endFound, done, html, file, fileAtStart,
                   nDecide, stopSignalled, nFinish, nWrites>>
    /\ ReturnToHost

\* ACTION_OF_ARG[args[0]] raises KeyError for a word that is no subcommand
UnknownAction ==
    /\ pc = "start" /\ action = "other"
    /\ pc' = "error" /\ err' = "UnknownAction"
    /\ UNCHANGED <<action, rawargs, timeArgs, fileArgs, now,
                   colorsForBuffer, nickColorCalls, backlog, cLine, gathered,
                   reachedTop, start_time, end_time, delimFrom, delimTo,
                   outfile, endFound, done, html, file, fileAtStart,
                   nDecide, stopSignalled, nFinish, nWrites>>
    /\ ReturnToHost

\* helpMsg prints the help and returns nothing
HelpMsg ==
    /\ pc = "start" /\ action = "help"
    /\ pc' = "helped"
    /\ UNCHANGED <<action, rawargs, timeArgs, fileArgs, now,
                   colorsForBuffer, nickColorCalls, backlog, cLine, gathered,
                   reachedTop, start_time, end_time, delimFrom, delimTo,
                   outfile, endFound, done, html, file, fileAtStart, err,
                   nDecide, stopSignalled, nFinish, nWrites>>
    /\ ReturnToHost

Next ==
    \/ ExportWithTimes
    \/ ExportWithTextMatch
    \/ ExportWithWhole
    \/ NoArgument
    \/ UnknownAction
    \/ HelpMsg
    \/ ScanLine
    \/ EndOfScan
    \/ RenderHtml
    \/ WriteFile

Spec == Init /\ [][Next]_vars

(***************************************************************************)
(* The argument parsing of `/logexport match` alone, on every text of up   *)
(* to MaxWords words, run on an empty buffer.                              *)
(***************************************************************************)
InitParse ==
    /\ pc = "start"
    /\ action = "match"
    /\ rawargs \in WordCommands
    /\ timeArgs = <<>> /\ fileArgs = <<>>
    /\ rc = "none" /\ errorLog = <<>>
    /\ now = MaxTime
    /\ colorsForBuffer = None
    /\ nickColorCalls = <<>>
    /\ backlog = <<>>
    /\ cLine = 0
    /\ gathered = <<>>
    /\ reachedTop = TRUE
    /\ start_time = 0 /\ end_time = 0
    /\ delimFrom = <<>> /\ delimTo = None /\ outfile = <<>>
    /\ endFound = FALSE /\ done = FALSE
    /\ html = None
    /\ file = None
    /\ fileAtStart = file
    /\ err = "none"
    /\ nDecide = 0 /\ stopSignalled = FALSE /\ nFinish = 0 /\ nWrites = 0

NextParse == ExportWithTextMatch

SpecParse == InitParse /\ [][NextParse]_vars

(***************************************************************************)
(* The time literal of `/logexport time` alone: one literal of up to       *)
(* MaxLit characters, resolved at several times of day, on an empty        *)
(* buffer.                                                                 *)
(***************************************************************************)
TimeChars == {"0", "2", "6", ":", "-"}
\* an argument is a word of the command line: it is never empty
Literals == UNION {[1..k -> TimeChars] : k \in 1..MaxLit}
\* the clock: day 1 at midnight, at 6:02:06 and at the day's last second
Clocks == {DaySeconds + ClockSeconds(c) :
              c \in {<<0, 0, 0>>, <<6, 2, 6>>, <<23, 59, 59>>}}

InitTime ==
    /\ pc = "start"
    /\ action = "time"
    /\ rawargs = <<>>
    /\ timeArgs \in {<<lit>> : lit \in Literals}
    /\ fileArgs = <<FileName>>
    /\ rc = "none" /\ errorLog = <<>>
    /\ now \in Clocks
    /\ colorsForBuffer = None
    /\ nickColorCalls = <<>>
    /\ backlog = <<>>
    /\ cLine = 0
    /\ gathered = <<>>
    /\ reachedTop = TRUE
    /\ start_time = 0 /\ end_time = 0
    /\ delimFrom = <<>> /\ delimTo = None /\ outfile = <<>>
    /\ endFound = FALSE /\ done = FALSE
    /\ html = None
    /\ file = None
    /\ fileAtStart = file
    /\ err = "none"
    /\ nDecide = 0 /\ stopSignalled = FALSE /\ nFinish = 0 /\ nWrites = 0

NextTime == ExportWithTimes

SpecTime == InitTime /\ [][NextTime]_vars

(***************************************************************************)
(* The rendering alone: renderHtml on slices as a whole export hands them  *)
(* over.  A slice varies in one respect: the dates of up to MaxRows lines, *)
(* or their prefixes, or the message of a single line, made of up to       *)
(* MaxPieces pieces.                                                       *)
(***************************************************************************)
\* the epoch's first two seconds, the next midnight, a second of day 2
RenderTimes == {0, 1, DaySeconds, 2 * DaySeconds + 1}

RenderPrefixes ==
    {<<"n">>, <<"x">>, <<"@", "n">>, <<ColorCode, "n">>,
     <<"-", "-">>, <<"<", "-", "-">>, <<>>}

Pieces ==
    {Http, <<"n">>, <<"x">>, <<" ">>, <<":">>, <<"<">>, <<">">>, <<"&">>,
     <<ColorCode>>}

RECURSIVE Concat(_)
Concat(ps) == IF ps = <<>> THEN <<>> ELSE Head(ps) \o Concat(Tail(ps))

RenderMsgs == {Concat(ps) : ps \in BoundedSeq(Pieces, MaxPieces)}

RenderSlices ==
    {[i \in 1..Len(ts) |->
         [timestamp |-> ts[i], prefix |-> <<"n">>, line |-> <<"x">>]] :
        ts \in BoundedSeq(RenderTimes, MaxRows)}
    \cup
    {[i \in 1..Len(ps) |->
         [timestamp |-> DaySeconds, prefix |-> ps[i], line |-> <<"x">>]] :
        ps \in BoundedSeq(RenderPrefixes, MaxRows)}
    \cup
    {<<[timestamp |-> DaySeconds, prefix |-> <<"n">>, line |-> m]>> :
        m \in RenderMsgs}

\* the state a whole export is in when it has scanned the buffer
InitRender ==
    /\ pc = "render"
    /\ action = "whole"
    /\ rawargs = <<>> /\ timeArgs = <<>> /\ fileArgs = <<FileName>>
    /\ rc = "none" /\ errorLog = <<>>
    /\ now = 3 * DaySeconds
    /\ colorsForBuffer = None
    /\ nickColorCalls = <<>>
    /\ \E slice \in RenderSlices :
          /\ backlog = [i \in 1..Len(slice) |->
                           [data |-> TRUE, timestamp |-> slice[i].timestamp,
                            prefix |-> slice[i].prefix,
                            message |-> slice[i].line]]
          /\ gathered = Reverse(slice)
          /\ nDecide = Len(slice)
    /\ cLine = 0
    /\ reachedTop = TRUE
    /\ start_time = 0 /\ end_time = 0
    /\ delimFrom = <<>> /\ delimTo = None /\ outfile = FileName
    /\ endFound = FALSE /\ done = FALSE
    /\ html = None
    /\ file = None
    /\ fileAtStart = file
    /\ err = "none"
    /\ stopSignalled = FALSE /\ nFinish = 1 /\ nWrites = 0

NextRender == RenderHtml

SpecRender == InitRender /\ [][NextRender]_vars

(***************************************************************************)
(* What the properties below are stated with.                              *)
(***************************************************************************)
\* the buffer's lines that carry data, as LogLines, oldest first
RECURSIVE LogLinesOf(_)
LogLinesOf(b) ==
    IF b = <<>> THEN <<>>
    ELSE IF Head(b).data THEN <<LogLine(Head(b))>> \o LogLinesOf(Tail(b))
    ELSE LogLinesOf(Tail(b))

\* the failures of a command that never came to scan the buffer
BeforeScanErrors ==
    {"NoArgument", "UnknownAction", "BadArguments", "BadlyFormattedTime"}

\* the scan is over and the predicate raised no error: a slice was returned
SliceReturned ==
    /\ pc \in {"render", "write", "done", "error"}
    /\ err \notin BeforeScanErrors
    /\ err \notin {"EndAnchorNotFound", "StartAnchorNotFound"}

\* the slice handed to the renderer
Slice == SliceOf(gathered)

\* the source delivers non-increasing timestamps, newest first
DeliveredInOrder ==
    LET ls == LogLinesOf(backlog)
    IN  \A i, j \in 1..Len(ls) : i <= j => ls[i].timestamp <= ls[j].timestamp

(***************************************************************************)
(* C1: a time export with start <= end, on a backlog delivered with        *)
(* non-increasing timestamps, returns exactly the lines whose timestamp is *)
(* in [start, end], both limits included: none outside, none missing.      *)
(***************************************************************************)
InWindow(l) == start_time <= l.timestamp /\ l.timestamp <= end_time

RECURSIVE WindowLines(_)
WindowLines(ls) ==
    IF ls = <<>> THEN <<>>
    ELSE IF InWindow(Head(ls)) THEN <<Head(ls)>> \o WindowLines(Tail(ls))
    ELSE WindowLines(Tail(ls))

C1_TimeRangeExact ==
    (action = "time" /\ SliceReturned /\ start_time <= end_time /\ DeliveredInOrder)
        => Slice = WindowLines(LogLinesOf(backlog))

\* a finished time export that skipped a newer line, kept lines, among them
\* one dated exactly start, and was stopped by an older line
C1_Witness ==
    /\ action = "time" /\ pc = "done" /\ DeliveredInOrder
    /\ start_time <= end_time /\ ~reachedTop
    /\ \E i \in 1..Len(backlog) : backlog[i].data /\ backlog[i].timestamp > end_time
    /\ \E i \in 1..Len(backlog) : backlog[i].data /\ backlog[i].timestamp < start_time
    /\ \E i \in 1..Len(gathered) : gathered[i].timestamp = start_time

(***************************************************************************)
(* C2: a match export with both anchors that succeeds returns exactly the  *)
(* run of lines from the most recent line older than the end line that     *)
(* contains the start text, up to the most recent line that contains the   *)
(* end text, both included, whatever lies outside the run.                 *)
(***************************************************************************)
\* positions in ls (oldest first) of the lines containing text
Holding(ls, text) == {i \in 1..Len(ls) : Contains(ls[i].line, text)}

C2_MatchRunExact ==
    (action = "match" /\ SliceReturned /\ delimTo /= None)
        => LET ls == LogLinesOf(backlog)
               ends == Holding(ls, delimTo[1])
           IN  /\ ends /= {}
               /\ LET e == SetMax(ends)
                      starts == {i \in Holding(ls, delimFrom) : i < e}
                  IN  /\ starts /= {}
                      /\ Slice = SubSeq(ls, SetMax(starts), e)

\* a finished match export with both anchors and the same text for both,
\* with a line newer than the run and a line older than it
C2_Witness ==
    /\ action = "match" /\ pc = "done" /\ delimTo /= None
    /\ delimFrom = delimTo[1]
    /\ ~reachedTop /\ Len(gathered) = 2
    /\ Len(LogLinesOf(backlog)) = 4
    /\ backlog[4].timestamp > gathered[1].timestamp

(***************************************************************************)
(* C3: a whole export returns every line of the backlog exactly once, in   *)
(* the backlog's order, oldest first.                                      *)
(***************************************************************************)
C3_WholeIsEverything ==
    (action = "whole" /\ SliceReturned) => Slice = LogLinesOf(backlog)

\* a finished whole export of a full buffer whose dates are not in order
C3_Witness ==
    /\ action = "whole" /\ pc = "done"
    /\ Len(gathered) = MaxLen
    /\ ~DeliveredInOrder

(***************************************************************************)
(* C4: when the source yields no line at all, the export fails (with       *)
(* EmptyBacklog) whatever the strategy: once the scan is over the command  *)
(* has ended in an error, no document is rendered and nothing is written.  *)
(* The code raises no error of that name, so the failure is stated as the  *)
(* command ending in an error of whatever name.                            *)
(***************************************************************************)
C4_EmptyBacklogFails ==
    (LogLinesOf(backlog) = <<>> /\ pc \notin {"start", "scan", "endscan"})
        => /\ pc = "error"
           /\ html = None /\ nWrites = 0 /\ file = fileAtStart

(***************************************************************************)
(* C5: when a match export exhausts the backlog without Stop, the final    *)
(* call fails with EndAnchorNotFound if no line holds the end text, fails  *)
(* with StartAnchorNotFound if the end anchor was found (or none was       *)
(* asked) but no line of that phase holds the start text, and succeeds     *)
(* otherwise, as when the start anchor is the oldest line.                 *)
(***************************************************************************)
\* what the backlog and the anchors say the final call must answer
ExpectedFinish ==
    LET ls == LogLinesOf(backlog)
    IN  IF delimTo /= None /\ Holding(ls, delimTo[1]) = {}
        THEN "EndAnchorNotFound"
        ELSE LET e == IF delimTo = None THEN Len(ls) + 1
                      ELSE SetMax(Holding(ls, delimTo[1]))
             IN  IF {i \in Holding(ls, delimFrom) : i < e} = {}
                 THEN "StartAnchorNotFound"
                 ELSE "ok"

C5_MatchFinish ==
    (action = "match" /\ nFinish = 1)
        => IF ExpectedFinish = "ok"
           THEN SliceReturned
           ELSE pc = "error" /\ err = ExpectedFinish

\* the start anchor is the oldest of three or more lines; the final call
\* was made and the export went on
C5_Witness ==
    /\ action = "match" /\ nFinish = 1 /\ pc = "done" /\ delimTo /= None
    /\ Len(LogLinesOf(backlog)) >= 3
    /\ backlog[1].data /\ Contains(backlog[1].message, delimFrom)
    /\ gathered[Len(gathered)] = LogLine(backlog[1])

(***************************************************************************)
(* C6: a match export with no end text, on a backlog no line of which      *)
(* holds the start text, fails with StartAnchorNotFound, and only once     *)
(* every line has been offered to the predicate; nothing is written.       *)
(***************************************************************************)
C6_StartNeverFound ==
    (/\ action = "match" /\ pc /= "start" /\ delimTo = None
     /\ Holding(LogLinesOf(backlog), delimFrom) = {})
        => /\ pc \in {"scan", "endscan", "error"}
           /\ html = None /\ nWrites = 0 /\ file = fileAtStart
           /\ pc = "error" => err = "StartAnchorNotFound"
           /\ pc \in {"endscan", "error"} =>
                 cLine = 0 /\ nDecide = Len(LogLinesOf(backlog))

\* the failure, on a full buffer every line of which was offered
C6_Witness ==
    /\ action = "match" /\ delimTo = None /\ delimFrom \in Texts
    /\ pc = "error" /\ err = "StartAnchorNotFound"
    /\ nDecide = MaxLen

(***************************************************************************)
(* C7: once the predicate signals Stop no further line is pulled and the   *)
(* predicate is not called on a line again; the final call is made at most *)
(* once, and it is made if and only if the backlog was exhausted without   *)
(* Stop (in a command that got as far as the scan).                        *)
(***************************************************************************)
C7_ScanProtocol ==
    [][/\ stopSignalled =>
            cLine' = cLine /\ nDecide' = nDecide /\ stopSignalled'
       /\ nFinish' <= 1
       /\ nFinish' /= nFinish => ~stopSignalled /\ cLine = 0
       /\ (pc' \in {"render", "write", "done", "error"}
           /\ err' \notin BeforeScanErrors) =>
            ((nFinish' = 1) <=> (~stopSignalled' /\ cLine' = 0))
      ]_vars

\* a finished export that was stopped with older lines left unread
C7_Witness ==
    /\ stopSignalled /\ cLine > 1 /\ pc = "done"
    /\ nFinish = 0 /\ nDecide < Len(LogLinesOf(backlog))

(***************************************************************************)
(* C8: the destination is written at most once, and only after the scan    *)
(* ended well (Stop, or exhaustion and a final call that succeeds) and the *)
(* whole document was rendered; when the command ends in an error          *)
(* (selection not satisfied, theme or export path not configured,          *)
(* destination exists, rendering failed) the destination is as it was.     *)
(***************************************************************************)
C8_NoPartialOutput ==
    /\ nWrites <= 1
    /\ file /= fileAtStart => nWrites = 1
    /\ nWrites = 1 =>
          /\ html /= None
          /\ stopSignalled \/ (nFinish = 1 /\ Finish = "ok")
          /\ err \in {"none", "IOErrorOnWrite"}
    /\ pc = "done" => file = Some(Document(Slice, colorsForBuffer[1]))
    /\ err \notin {"none", "IOErrorOnWrite"} =>
          pc = "error" /\ file = fileAtStart /\ nWrites = 0

\* a document of several lines written after the final call succeeded
C8_Witness ==
    /\ pc = "done" /\ nWrites = 1 /\ nFinish = 1 /\ action = "match"
    /\ Len(gathered) >= 2 /\ fileAtStart = None
    /\ file = Some(Document(Slice, colorsForBuffer[1]))

(***************************************************************************)
(* C9: if the destination exists when the export comes to write, the       *)
(* export fails with DestinationExists and the file is unchanged; a file   *)
(* is created only where none existed.                                     *)
(***************************************************************************)
C9_NoOverwrite ==
    /\ fileAtStart /= None =>
          /\ file = fileAtStart /\ nWrites = 0 /\ pc /= "done"
          /\ (pc = "error" /\ html /= None) =>
                err \in {"DestinationExists", "ExportPathNotSet"}
    /\ err = "DestinationExists" => fileAtStart /= None
    /\ nWrites >= 1 => fileAtStart = None

\* the export came to write, found the file and failed
C9_Witness ==
    /\ pc = "error" /\ err = "DestinationExists"
    /\ html /= None /\ Len(gathered) >= 1
    /\ fileAtStart = Some(OldFile) /\ file = Some(OldFile)

(***************************************************************************)
(* C10: match arguments `<start-text> ... <end-text> <filename>`, with the *)
(* three dots or with the ellipsis character as the delimiter between      *)
(* blanks: the start anchor is the text before the delimiter, the end      *)
(* anchor the text between the delimiter and the last word, the file name  *)
(* the last word; the delimiter that occurs (or occurs first) splits, so   *)
(* an end anchor is present whenever a delimiter is.                       *)
(***************************************************************************)
C10_DelimiterSplits ==
    (action = "match" /\ pc /= "start")
        => LET lastspace == PyRFind(rawargs, <<" ">>)
               rest == PyStrip(PySliceTo(rawargs, lastspace))
               found == {d \in {DelimAscii, DelimEllipsis} : PyFind(rest, d, 0) >= 0}
           IN  (lastspace >= 0 /\ found /= {})
                  => LET d == CHOOSE x \in found : \A y \in found :
                                 PyFind(rest, x, 0) <= PyFind(rest, y, 0)
                         p == PyFind(rest, d, 0)
                     IN  /\ outfile = PySliceFrom(rawargs, lastspace + 1)
                         /\ delimFrom = PyStrip(PySliceTo(rest, p))
                         /\ delimTo = Some(PyStrip(PySliceFrom(rest, p + Len(d))))


(***************************************************************************)
(* C11: a `/logexport time` command, of one or two time literals and a     *)
(* file name, one of whose time literals, start or end, is no time is      *)
(* ended by BadlyFormattedTime before the buffer is                        *)
(* touched: no line is pointed at, the predicate is never called, nothing  *)
(* is rendered and nothing is written.                                     *)
(***************************************************************************)
C11_MalformedTimeRejectedFirst ==
    (action = "time" /\ pc /= "start"
     /\ Len(timeArgs) \in {1, 2} /\ fileArgs = <<FileName>>
     /\ \E i \in 1..Len(timeArgs) : ParseTime(timeArgs[i]) = None)
    => /\ pc = "error" /\ err = "BadlyFormattedTime"
       /\ cLine = 0 /\ gathered = <<>>
       /\ nDecide = 0 /\ nFinish = 0
       /\ html = None /\ colorsForBuffer = None
       /\ nWrites = 0 /\ file = fileAtStart

\* a command with a good start and a bad end, on a buffer that has lines
C11_Witness ==
    /\ err = "BadlyFormattedTime"
    /\ Len(timeArgs) = 2
    /\ ParseTime(timeArgs[1]) /= None
    /\ \E i \in 1..Len(backlog) : backlog[i].data

\* what the properties on time literals are stated with: the literal's
\* colon-separated components, the last one being allowed to be empty
Components(lit) == PySplit(lit, ":")
IsTrailingEmpty(lit, i) ==
    i = Len(Components(lit)) /\ i > 1 /\ Components(lit)[i] = <<>>
FieldValue(lit, i) ==
    IF i > Len(Components(lit)) \/ IsTrailingEmpty(lit, i) THEN 0
    ELSE PyInt(Components(lit)[i])
IsTime(lit) ==
    /\ Len(Components(lit)) <= 3
    /\ \A i \in 1..Len(Components(lit)) :
          IsTrailingEmpty(lit, i) \/ IsInt(Components(lit)[i])
    /\ 0 <= FieldValue(lit, 1) /\ FieldValue(lit, 1) < 24
    /\ 0 <= FieldValue(lit, 2) /\ FieldValue(lit, 2) < 60
    /\ 0 <= FieldValue(lit, 3) /\ FieldValue(lit, 3) < 60
TimeOfDay(lit) ==
    FieldValue(lit, 1) * 3600 + FieldValue(lit, 2) * 60 + FieldValue(lit, 3)
Midnight == (now \div DaySeconds) * DaySeconds

(***************************************************************************)
(* C12: a valid time literal resolves to an instant r that has the         *)
(* literal's time of day, is not after the clock and is less than a day    *)
(* before it: today's occurrence, unless that is strictly after the        *)
(* clock, and then the occurrence exactly one day earlier.                 *)
(***************************************************************************)
C12_ResolvedToLatestOccurrence ==
    (action = "time" /\ pc /= "start" /\ err = "none")
    => /\ start_time % DaySeconds = TimeOfDay(timeArgs[1])
       /\ start_time <= now
       /\ now - start_time < DaySeconds
       /\ start_time = IF Midnight + TimeOfDay(timeArgs[1]) > now
                       THEN Midnight + TimeOfDay(timeArgs[1]) - DaySeconds
                       ELSE Midnight + TimeOfDay(timeArgs[1])

\* a literal whose time of day is still to come today: yesterday's is taken
C12_Witness ==
    /\ action = "time" /\ pc /= "start" /\ err = "none"
    /\ Midnight + TimeOfDay(timeArgs[1]) > now
    /\ start_time < Midnight

(***************************************************************************)
(* C13: a time literal H, H:, H:M, H:M: or H:M:S reads as (H, M or 0,      *)
(* S or 0).  It is refused if it has more than three colon-separated       *)
(* components, if a component other than a single trailing empty one is    *)
(* empty or no number, or if not 0 <= h < 24, 0 <= m < 60, 0 <= s < 60;    *)
(* no other literal is refused.                                            *)
(***************************************************************************)
C13_TimeLiteralParsing ==
    (action = "time" /\ pc /= "start" /\ Len(timeArgs) = 1)
    => IF IsTime(timeArgs[1])
       THEN /\ err = "none"
            /\ start_time % DaySeconds = TimeOfDay(timeArgs[1])
            /\ ParseTime(timeArgs[1]) =
                  Some(<<FieldValue(timeArgs[1], 1), FieldValue(timeArgs[1], 2),
                         FieldValue(timeArgs[1], 3)>>)
       ELSE err = "BadlyFormattedTime"

\* a literal of two fields and a trailing colon, read with 0 seconds
C13_Witness ==
    /\ action = "time" /\ pc /= "start" /\ err = "none"
    /\ Len(Components(timeArgs[1])) = 3
    /\ IsTrailingEmpty(timeArgs[1], 3)
    /\ FieldValue(timeArgs[1], 2) > 0

\* what the properties on the rendered body are stated with: the document's
\* lines and elements, the place of the row of line j, the heading a row is
\* under, the closest heading going back from an element
DocLines == html[1].lines
DocBody == html[1].body
RowIndexes == {i \in 1..Len(DocBody) : DocBody[i].el = "tr"}
RowOfEachLine == Cardinality(RowIndexes) = Len(DocLines)
RowAt(j) ==
    CHOOSE i \in RowIndexes : Cardinality({k \in RowIndexes : k <= i}) = j
HeadedAt(i) ==
    i > 2 /\ DocBody[i - 1].el = "table" /\ DocBody[i - 2].el = "h3"
SectionDate(i) ==
    LET hs == {h \in 1..i : DocBody[h].el = "h3"}
    IN  IF hs = {} THEN None ELSE Some(DocBody[SetMax(hs)].date)

(***************************************************************************)
(* C14: with the theme configured the rendering never fails, whatever the  *)
(* slice and whatever the buffer's nicks, an empty nick list and messages  *)
(* made of words included.                                                 *)
(***************************************************************************)
C14_RenderNeverFails ==
    colorsForBuffer /= None => (err = "none" /\ html /= None)

(***************************************************************************)
(* C15: in the body of a non-empty slice a day section (heading and table  *)
(* opening) stands before the first row and before every row whose date    *)
(* differs from the row before, and nowhere else; every row is under the   *)
(* heading of its own date, the epoch's day included.                      *)
(***************************************************************************)
C15_DaySections ==
    (html /= None /\ Len(DocLines) > 0)
    => /\ RowOfEachLine
       /\ \A j \in 1..Len(DocLines) :
             /\ HeadedAt(RowAt(j))
                <=> (j = 1 \/ DateOf(DocLines[j].timestamp)
                              /= DateOf(DocLines[j - 1].timestamp))
             /\ SectionDate(RowAt(j)) = Some(DateOf(DocLines[j].timestamp))
       /\ \A h \in 1..Len(DocBody) :
             DocBody[h].el = "h3" => (h + 2) \in RowIndexes /\ HeadedAt(h + 2)

\* the sentinel prefixes, as the lines of a buffer carry them
Sentinels ==
    {<<"-", "-">>, <<"-", "-", ">">>, <<"<", "-", "-">>, <<"=", "!", "=">>,
     <<>>}
IsContinuationRow(i) == DocBody[i].nick = ContinuationMark

(***************************************************************************)
(* C16, as stated: a row shows the continuation mark if and only if its    *)
(* line's prefix equals the prefix of the line before and is no sentinel   *)
(* prefix; the first row never does, a repeated sentinel never does.       *)
(***************************************************************************)
C16_ContinuationOnEqualPrefix ==
    html /= None
    => /\ RowOfEachLine
       /\ \A j \in 1..Len(DocLines) :
             IsContinuationRow(RowAt(j))
             <=> /\ j > 1
                 /\ DocLines[j].prefix = DocLines[j - 1].prefix
                 /\ DocLines[j].prefix \notin Sentinels

(***************************************************************************)
(* C16, amended: a row shows the continuation mark if and only if its      *)
(* line's prefix, colour codes taken out, equals the prefix of the line    *)
(* before, colour codes taken out, and is no sentinel prefix; the first    *)
(* row never does, a repeated sentinel never does.                         *)
(***************************************************************************)
C16_ContinuationOnEqualShownPrefix ==
    html /= None
    => /\ RowOfEachLine
       /\ \A j \in 1..Len(DocLines) :
             IsContinuationRow(RowAt(j))
             <=> /\ j > 1
                 /\ StringRemoveColor(DocLines[j].prefix)
                    = StringRemoveColor(DocLines[j - 1].prefix)
                 /\ StringRemoveColor(DocLines[j].prefix) \notin Sentinels

\* a nick's second line, coloured otherwise, collapsed; then a sentinel's
\* second line not
C16_Witness ==
    /\ html /= None /\ Len(DocLines) = 3
    /\ DocLines[1].prefix /= DocLines[2].prefix
    /\ IsContinuationRow(RowAt(2))
    /\ DocLines[3].prefix \in Sentinels
    /\ ~IsContinuationRow(RowAt(3))

\* what the properties on a message cell are stated with: the pieces of a
\* text that start after each '<', the tag and the text of such a piece
PartsOf(text) == Tail(PySplit(text, "<"))
TagOfPart(part) == PySliceTo(part, PyFind(part, <<">">>, 0))
TextOfPart(part) == PySliceFrom(part, PyFind(part, <<">">>, 0) + 1)
TagsOf(text) ==
    LET parts == PartsOf(text)
    IN  [i \in 1..Len(parts) |-> TagOfPart(parts[i])]
SpanTagOf(nick) == Tail(SpanOpen) \o NickColorName(nick) \o <<"\"">>
IsSpanOpen(tag) == StartsAt(tag, 0, <<"s", "p", "a", "n", " ">>)
IsSpanTag(tag) == IsSpanOpen(tag) \/ tag = <<"/", "s", "p", "a", "n">>
OtherTags(text) ==
    LET NoSpan(tag) == ~IsSpanTag(tag)
    IN  SelectSeq(TagsOf(text), NoSpan)
SpanCount(text) == Len(SelectSeq(TagsOf(text), IsSpanOpen))
RECURSIVE SumOf(_)
SumOf(ns) == IF ns = <<>> THEN 0 ELSE Head(ns) + SumOf(Tail(ns))
\* the whole-word occurrences of the table's nicks in a text, tags left out
MentionsIn(text, nicks) ==
    Cardinality({k \in 0..Len(text) : NickAt(text, k, nicks) /= None})
MentionsOutsideTags(text, nicks) ==
    LET outside == OutsideTags(text)
    IN  SumOf([i \in 1..Len(outside) |-> MentionsIn(outside[i], nicks)])
\* a text with its tags deleted
StripTags(text) ==
    LET pieces == PySplit(text, "<")
        parts == Tail(pieces)
    IN  pieces[1] \o Concat([i \in 1..Len(parts) |-> TextOfPart(parts[i])])
Linked(j) == ClickableUrls(Escape(DocLines[j].line))
MessageCell(j) == DocBody[RowAt(j)].message

(***************************************************************************)
(* C17: the highlighting of nicks leaves what stands between a '<' and its *)
(* '>' as it was: a nick of the buffer inside a tag (the href of a link)   *)
(* is untouched, and each of its occurrences outside the tags is wrapped   *)
(* in the span of the nick's colour.                                       *)
(***************************************************************************)
C17_TagsShielded ==
    (html /= None /\ RowOfEachLine)
    => \A j \in 1..Len(DocLines) :
          LET cell == MessageCell(j)
              linked == Linked(j)
              parts == PartsOf(cell)
          IN  /\ OtherTags(cell) = TagsOf(linked)
              /\ SpanCount(cell)
                 = MentionsOutsideTags(linked, colorsForBuffer[1])
              /\ \A i \in 1..Len(parts) :
                    IsSpanOpen(TagOfPart(parts[i]))
                    => \E n \in colorsForBuffer[1] :
                          /\ TagOfPart(parts[i]) = SpanTagOf(n)
                          /\ TextOfPart(parts[i]) = n

\* a link whose address holds a nick of the buffer as a word, in a cell
\* where the nick is wrapped outside the tags
C17_Witness ==
    /\ html /= None /\ Len(DocLines) = 1
    /\ \E i \in 1..Len(OtherTags(MessageCell(1))) :
          MentionsIn(OtherTags(MessageCell(1))[i], colorsForBuffer[1]) > 0
    /\ SpanCount(MessageCell(1)) > 0

(***************************************************************************)
(* C18: the enhancement only adds markup: the cell of a message, its span  *)
(* and anchor tags deleted, is the escaped message character for           *)
(* character; the character after a highlighted nick is kept.              *)
(***************************************************************************)
C18_OnlyMarkupAdded ==
    (html /= None /\ RowOfEachLine)
    => \A j \in 1..Len(DocLines) :
          StripTags(MessageCell(j)) = Escape(DocLines[j].line)

\* each character replaced on its own
RECURSIVE Entities(_)
Entities(t) ==
    IF t = <<>> THEN <<>>
    ELSE (CASE Head(t) = "&" -> Amp
            [] Head(t) = "<" -> Lt
            [] Head(t) = ">" -> Gt
            [] OTHER -> <<Head(t)>>) \o Entities(Tail(t))
RECURSIVE Unescape(_)
Unescape(t) ==
    IF t = <<>> THEN <<>>
    ELSE IF StartsAt(t, 0, Amp)
    THEN <<"&">> \o Unescape(PySliceFrom(t, Len(Amp)))
    ELSE IF StartsAt(t, 0, Lt) THEN <<"<">> \o Unescape(PySliceFrom(t, Len(Lt)))
    ELSE IF StartsAt(t, 0, Gt) THEN <<">">> \o Unescape(PySliceFrom(t, Len(Gt)))
    ELSE <<Head(t)>> \o Unescape(Tail(t))
NoRawBracket(t) == \A i \in 1..Len(t) : t[i] \notin {"<", ">"}
\* the texts of the rendered lines, and the prefix as a row shows it
DocTexts ==
    {DocLines[j].line : j \in 1..Len(DocLines)}
    \cup {DocLines[j].prefix : j \in 1..Len(DocLines)}
ShownPrefix(j) == DocBody[RowAt(j)].nickPrefix \o DocBody[RowAt(j)].nick

(***************************************************************************)
(* C19, as stated: escape replaces each & by &amp;, each < by &lt;, each > *)
(* by &gt; and leaves every other character as it is, as if all at once;   *)
(* the outcome has no raw < or >, and unescaping it gives the text back.   *)
(***************************************************************************)
C19_EscapeExact ==
    (html /= None /\ RowOfEachLine)
    => /\ \A t \in DocTexts :
             /\ Escape(t) = Entities(t)
             /\ NoRawBracket(Escape(t))
             /\ Unescape(Escape(t)) = t
       /\ \A j \in 1..Len(DocLines) :
             ~IsContinuationRow(RowAt(j))
             => ShownPrefix(j) = Entities(DocLines[j].prefix)

(***************************************************************************)
(* C19, amended: escape takes the colour codes out of the text, then       *)
(* replaces each & by &amp;, each < by &lt;, each > by &gt; and leaves     *)
(* every other character as it is, as if all at once; the outcome has no   *)
(* raw < or >, and unescaping it gives the text without its colour codes   *)
(* back.                                                                   *)
(***************************************************************************)
C19_EscapeExactOnShownText ==
    (html /= None /\ RowOfEachLine)
    => /\ \A t \in DocTexts :
             LET escaped == Escape(t)
                 shown == StringRemoveColor(t)
             IN  /\ escaped = Entities(shown)
                 /\ NoRawBracket(escaped)
                 /\ Unescape(escaped) = shown
       /\ \A j \in 1..Len(DocLines) :
             ~IsContinuationRow(RowAt(j))
             => ShownPrefix(j) = Entities(StringRemoveColor(DocLines[j].prefix))

\* a rendered message that holds an ampersand, both brackets and a colour
C19_Witness ==
    /\ html /= None /\ Len(DocLines) = 1
    /\ \A c \in {"&", "<", ">", ColorCode} :
          \E i \in 1..Len(DocLines[1].line) : DocLines[1].line[i] = c

\* from element i on, with a table open or not: every table closing closes
\* an open table, every opening finds none open, every row is in a table
RECURSIVE TablesBalanced(_, _, _)
TablesBalanced(body, i, open) ==
    IF i > Len(body) THEN ~open
    ELSE CASE body[i].el = "table"  -> ~open /\ TablesBalanced(body, i + 1, TRUE)
           [] body[i].el = "/table" -> open /\ TablesBalanced(body, i + 1, FALSE)
           [] body[i].el = "tr"     -> open /\ TablesBalanced(body, i + 1, open)
           [] OTHER                 -> TablesBalanced(body, i + 1, open)

(***************************************************************************)
(* C20: the body of every slice an export renders, the empty slice         *)
(* included, has balanced tables: every closing follows its opening, there *)
(* are as many closings as openings, every row is between an opening and   *)
(* its closing.                                                            *)
(***************************************************************************)
C20_TablesBalanced ==
    html /= None => TablesBalanced(DocBody, 1, FALSE)

(***************************************************************************)
(* C21: for every strategy and backlog, the returned slice is a            *)
(* subsequence of the backlog in its original order, oldest line first:    *)
(* each included line appears exactly once, and lines with equal           *)
(* timestamps keep their backlog order; when the source delivers           *)
(* non-increasing timestamps, the slice's timestamps are non-decreasing.   *)
(***************************************************************************)
\* s can be had from t by leaving elements out
RECURSIVE IsSubsequence(_, _)
IsSubsequence(s, t) ==
    IF s = <<>> THEN TRUE
    ELSE IF t = <<>> THEN FALSE
    ELSE IF Head(s) = Head(t) THEN IsSubsequence(Tail(s), Tail(t))
    ELSE IsSubsequence(s, Tail(t))

\* the places of a line among the lines ls
PlacesOf(l, ls) == {k \in 1..Len(ls) : ls[k] = l}

NonDecreasing(ls) ==
    \A i \in 1..Len(ls) - 1 : ls[i].timestamp <= ls[i + 1].timestamp

C21_SliceOrder ==
    SliceReturned =>
        LET ls == LogLinesOf(backlog)
            sl == Slice
        IN  /\ IsSubsequence(sl, ls)
            /\ \A i, j \in 1..Len(sl) :
                  i < j =>
                    /\ sl[i] /= sl[j]
                    /\ sl[i].timestamp = sl[j].timestamp
                          => \A p \in PlacesOf(sl[i], ls),
                                q \in PlacesOf(sl[j], ls) : p < q
            /\ (NonDecreasing(ls) => NonDecreasing(sl))

\* a finished time export that left a line of the buffer out and kept two
\* lines of one timestamp
C21_Witness ==
    /\ action = "time" /\ pc = "done" /\ DeliveredInOrder
    /\ Len(Slice) < Len(LogLinesOf(backlog))
    /\ \E i, j \in 1..Len(Slice) :
          i < j /\ Slice[i].timestamp = Slice[j].timestamp


(***************************************************************************)
(* C22: during one render call WeeChat is asked for a nick's colour at     *)
(* most once for each distinct author name, however many lines and entries *)
(* of the nick list carry that name, and it is never asked for a line      *)
(* whose prefix is a sentinel: such a row always has the colour `default`. *)
(***************************************************************************)
RoleMarks == {"!", "@", "~", "%", "+"}

\* the author a line names: its prefix as shown, without the role mark
AuthorOfLine(l) ==
    LET shown == StringRemoveColor(l.prefix)
    IN  IF shown \notin Sentinels /\ shown /= <<>> /\ shown[1] \in RoleMarks
        THEN Tail(shown) ELSE shown

\* the author a call of nickColor was made for: an entry of the nick list
\* (row 0) is asked for by its name, a row for the author of its line
AuthorOfCall(k) ==
    IF nickColorCalls[k].row = 0 THEN nickColorCalls[k].nick
    ELSE AuthorOfLine(Slice[nickColorCalls[k].row])

AskedCalls == {k \in 1..Len(nickColorCalls) : nickColorCalls[k].asked}

C22_ColourLookupCached ==
    colorsForBuffer /= None =>
        /\ \A k1, k2 \in AskedCalls :
              k1 /= k2 => AuthorOfCall(k1) /= AuthorOfCall(k2)
        /\ \A k \in AskedCalls :
              /\ nickColorCalls[k].nick \notin Sentinels
              /\ (nickColorCalls[k].row > 0
                     => Slice[nickColorCalls[k].row].prefix \notin Sentinels)
        /\ (html /= None =>
              \A j \in 1..Len(DocLines) :
                  DocLines[j].prefix \in Sentinels
                      => DocBody[RowAt(j)].color = DefaultColor)

\* a rendered document with two entries of the nick list and two lines of
\* different prefixes for one author, asked for once, and a sentinel line
C22_Witness ==
    /\ html /= None
    /\ \E a \in {AuthorOfCall(k) : k \in 1..Len(nickColorCalls)} :
          /\ Cardinality({k \in 1..Len(nickColorCalls) :
                             nickColorCalls[k].row = 0
                             /\ AuthorOfCall(k) = a}) = 2
          /\ \E k1, k2 \in 1..Len(nickColorCalls) :
                /\ nickColorCalls[k1].row > 0 /\ nickColorCalls[k2].row > 0
                /\ AuthorOfCall(k1) = a /\ AuthorOfCall(k2) = a
                /\ DocLines[nickColorCalls[k1].row].prefix
                       /= DocLines[nickColorCalls[k2].row].prefix
          /\ Cardinality({k \in AskedCalls : AuthorOfCall(k) = a}) = 1
    /\ \E j \in 1..Len(DocLines) :
          DocLines[j].prefix \in Sentinels /\ DocLines[j].prefix /= <<>>

(***************************************************************************)
(* C23: every /logexport command returns OK or ERROR to WeeChat and lets   *)
(* no exception out; a command that fails (bad arguments, a time literal   *)
(* that is no time, a selection not satisfied, a missing configuration, a  *)
(* destination that exists, an unknown subcommand) returns ERROR and logs  *)
(* exactly one error message, the one of its failure, although an export   *)
(* handler is wrapped by two error-catching layers; a command that         *)
(* succeeds returns OK and logs none.                                      *)
(***************************************************************************)
Failed == pc = "error"

C23_SingleTerminalFailure ==
    /\ rc \in {"none", "OK", "ERROR"}
    /\ rc = "none" => errorLog = <<>>
    /\ rc /= "none" =>
          IF Failed THEN rc = "ERROR" /\ errorLog = <<err>>
          ELSE rc = "OK" /\ errorLog = <<>> /\ err = "none"

\* a match export that scanned, rendered and found its destination taken:
\* raised under both layers, logged once
C23_Witness ==
    /\ action = "match" /\ err = "DestinationExists"
    /\ html /= None /\ Len(gathered) >= 1
    /\ rc = "ERROR" /\ Len(errorLog) = 1

(***************************************************************************)
(* C24: in a match export, in every state of the scan, done implies        *)
(* endFound; each flag only ever changes from false to true; once endFound *)
(* is true no later line is excluded; and Stop is answered only by the     *)
(* first call on a line made after done became true: a call made with done *)
(* answers Stop, a call made without it never does, and no call follows a  *)
(* Stop.                                                                   *)
(***************************************************************************)
\* the step is a call of the predicate on a line
DecideCall == nDecide' = nDecide + 1
\* what the call answered, as the scan shows it
AnsweredStop == stopSignalled'
AnsweredInclude == ~stopSignalled' /\ gathered' /= gathered
AnsweredExclude == ~stopSignalled' /\ gathered' = gathered

C24_TextMatchFlags ==
    [][action = "match" =>
          /\ (done => endFound) /\ (done' => endFound')
          /\ (endFound => endFound') /\ (done => done')
          /\ (DecideCall /\ endFound) => ~AnsweredExclude
          /\ DecideCall => (AnsweredStop <=> done)
          /\ (done' /\ ~done) => (DecideCall /\ AnsweredInclude)
          /\ stopSignalled => ~DecideCall
      ]_vars

\* a match export with both anchors: a newer line was excluded, the line of
\* the end anchor and the line of the start anchor were kept, and the next
\* line was answered with Stop
C24_Witness ==
    /\ action = "match" /\ delimTo /= None
    /\ endFound /\ done /\ stopSignalled
    /\ nDecide = 4 /\ Len(gathered) = 2
=============================================================================
